---------------------------- MODULE Spec2Model ----------------------------
(***************************************************************************)
(* Hypoglycemia-risk calculator (src/app.py).                              *)
(*                                                                         *)
(* The script is a form: every change of a widget reruns it with the       *)
(* button unpressed (nothing is computed, the hint is shown), a click on   *)
(* the button reruns it with go = True and computes the logit, the         *)
(* probability, the risk tier with its advice, and the contributions.      *)
(*                                                                         *)
(* Arithmetic is decimal fixed point.  All coefficients have three         *)
(* decimals, glucose and BUN are entered in tenths and hemoglobin is an    *)
(* integer, so a logit is an integer number of 1/ZScale.  A probability is *)
(* an integer number of 1/PScale.  Binary floating-point rounding of the   *)
(* Python floats is not modelled.                                          *)
(***************************************************************************)
EXTENDS Integers, FiniteSets, Sequences, TLC

VARIABLES diagnosis, dbp_cat, glucose, bun, hb, lax, nrs,
          base_glu, base_bun, base_hb, base_dbp, base_lax, base_nrs,
          go, z, p, tier, advice, contrib

inputs == <<diagnosis, dbp_cat, glucose, bun, hb, lax, nrs>>
baseline == <<base_glu, base_bun, base_hb, base_dbp, base_lax, base_nrs>>
outputs == <<z, p, tier, advice, contrib>>
vars == <<inputs, baseline, go, outputs>>

(* Units. *)
ZScale == 10000
PScale == 40000

(* COEF, in 1/ZScale; the weights of glucose and BUN are per tenth. *)
intercept == -61800
dx_colon == -23420
dx_gastric == -32670
dx_esophageal == -13440
dx_other == -15340
lax_yes == 28260
dbp_cat2 == 19280
dbp_cat3 == 2870
dbp_cat4 == -1680
w_bun == 101
w_glucose == 74
w_hb == 1510
nrs_yes == 54600

COEF == [intercept |-> intercept, dx_colon |-> dx_colon, dx_gastric |-> dx_gastric,
         dx_esophageal |-> dx_esophageal, dx_other |-> dx_other, lax_yes |-> lax_yes,
         dbp_cat2 |-> dbp_cat2, dbp_cat3 |-> dbp_cat3, dbp_cat4 |-> dbp_cat4,
         bun |-> w_bun, glucose |-> w_glucose, hb |-> w_hb, nrs_yes |-> nrs_yes]

(* The options of the select boxes. *)
DiagnosisOptions == <<"Gallbladder/pancreatic disease (reference)", "Colonic lesion",
                      "Gastric neoplasm", "Esophageal lesion", "Other diseases">>
DbpOptions == <<"< 90 mmHg (reference)", "90-100 mmHg", "101-110 mmHg", "> 110 mmHg">>
YesNoOptions == <<"No / Fou", "Yes / Shi">>

Range(s) == {s[i] : i \in DOMAIN s}

(* The ranges and defaults of the number inputs: glucose and BUN in tenths *)
(* of mmol/L, hemoglobin in g/L.                                           *)
GluMin == 20
GluMax == 300
GluDefault == 56
BunMin == 0
BunMax == 400
BunDefault == 60
HbMin == 60
HbMax == 200
HbDefault == 130

(* The values the model enters in the number inputs.  Glucose: the        *)
(* default and up to MaxStep strides above it; BUN: the lower end of its  *)
(* range and the default; hemoglobin: the default and the upper end of    *)
(* its range.                                                             *)
MaxStep == 1
GluStride == (GluMax - GluDefault) \div 4

GlucoseValues == {v \in GluMin..GluMax : \E k \in 0..MaxStep : v = GluDefault + k * GluStride}
BunValues == {BunMin, BunDefault}
HbValues == {HbDefault, HbMax}

(* ---------- Helper ---------- *)

(* np.exp is NumPy's; it is computed here in fixed point, by reduction to *)
(* [0, 1) and the power series, accurate to about 6e-5 in the probability *)
(* over the logits the model uses.                                        *)

(* e^(-f/ZScale) for 0 <= f < ZScale, in 1/PScale: the alternating series, *)
(* each term from the one before.                                          *)
RECURSIVE ExpSeries(_, _, _, _)
ExpSeries(f, k, term, total) ==
    LET next == (term * f) \div (ZScale * k)
    IN  IF next = 0 THEN total
        ELSE ExpSeries(f, k + 1, next, IF k % 2 = 0 THEN total + next ELSE total - next)

(* 1/e in 1/PScale. *)
InvE == 14715

(* e^(-a/ZScale) for a >= 0, in 1/PScale: one factor 1/e per whole unit. *)
RECURSIVE ExpNeg(_)
ExpNeg(a) ==
    IF a >= ZScale THEN (ExpNeg(a - ZScale) * InvE) \div PScale
    ELSE ExpSeries(a, 1, PScale, PScale)

(* np.exp(x), x in 1/ZScale, result in 1/PScale. *)
Exp(x) == IF x <= 0 THEN ExpNeg(-x) ELSE (PScale * PScale) \div ExpNeg(x)

(* Slip: the argument of the exponential without its sign. *)
logistic_unsigned(x) == (PScale * PScale) \div (PScale + Exp(x))

logistic(x) == (PScale * PScale) \div (PScale + Exp(-x))

YesIn(s) == s = YesNoOptions[2]

(* Slip: the last DBP branch adds the weight of the branch above it. *)
logit_from_inputs_dbp_slip(dg, dbp, glu, bn, h, lx, nr) ==
    LET z0 == COEF.intercept + COEF.glucose * glu + COEF.bun * bn + COEF.hb * h
        z1 == IF dbp = "90-100 mmHg" THEN z0 + COEF.dbp_cat2
              ELSE IF dbp = "101-110 mmHg" THEN z0 + COEF.dbp_cat3
              ELSE IF dbp = "> 110 mmHg" THEN z0 + COEF.dbp_cat3
              ELSE z0
        z2 == IF YesIn(lx) THEN z1 + COEF.lax_yes ELSE z1
        z3 == IF YesIn(nr) THEN z2 + COEF.nrs_yes ELSE z2
    IN  IF dg = "Colonic lesion" THEN z3 + COEF.dx_colon
        ELSE IF dg = "Gastric neoplasm" THEN z3 + COEF.dx_gastric
        ELSE IF dg = "Esophageal lesion" THEN z3 + COEF.dx_esophageal
        ELSE IF dg = "Other diseases" THEN z3 + COEF.dx_other
        ELSE z3

(* Slip: the weights of glucose and BUN exchanged. *)
logit_from_inputs_weights_swapped(dg, dbp, glu, bn, h, lx, nr) ==
    LET z0 == COEF.intercept + COEF.bun * glu + COEF.glucose * bn + COEF.hb * h
        z1 == IF dbp = "90-100 mmHg" THEN z0 + COEF.dbp_cat2
              ELSE IF dbp = "101-110 mmHg" THEN z0 + COEF.dbp_cat3
              ELSE IF dbp = "> 110 mmHg" THEN z0 + COEF.dbp_cat4
              ELSE z0
        z2 == IF YesIn(lx) THEN z1 + COEF.lax_yes ELSE z1
        z3 == IF YesIn(nr) THEN z2 + COEF.nrs_yes ELSE z2
    IN  IF dg = "Colonic lesion" THEN z3 + COEF.dx_colon
        ELSE IF dg = "Gastric neoplasm" THEN z3 + COEF.dx_gastric
        ELSE IF dg = "Esophageal lesion" THEN z3 + COEF.dx_esophageal
        ELSE IF dg = "Other diseases" THEN z3 + COEF.dx_other
        ELSE z3

logit_from_inputs(dg, dbp, glu, bn, h, lx, nr) ==
    LET z0 == COEF.intercept + COEF.glucose * glu + COEF.bun * bn + COEF.hb * h
        z1 == IF dbp = "90-100 mmHg" THEN z0 + COEF.dbp_cat2
              ELSE IF dbp = "101-110 mmHg" THEN z0 + COEF.dbp_cat3
              ELSE IF dbp = "> 110 mmHg" THEN z0 + COEF.dbp_cat4
              ELSE z0
        z2 == IF YesIn(lx) THEN z1 + COEF.lax_yes ELSE z1
        z3 == IF YesIn(nr) THEN z2 + COEF.nrs_yes ELSE z2
    IN  IF dg = "Colonic lesion" THEN z3 + COEF.dx_colon
        ELSE IF dg = "Gastric neoplasm" THEN z3 + COEF.dx_gastric
        ELSE IF dg = "Esophageal lesion" THEN z3 + COEF.dx_esophageal
        ELSE IF dg = "Other diseases" THEN z3 + COEF.dx_other
        ELSE z3

DbpDummies == <<<<"dbp_cat2", "90-100 mmHg">>, <<"dbp_cat3", "101-110 mmHg">>,
                <<"dbp_cat4", "> 110 mmHg">>>>
DxDummies == <<<<"dx_colon", "Colonic lesion">>, <<"dx_gastric", "Gastric neoplasm">>,
               <<"dx_esophageal", "Esophageal lesion">>, <<"dx_other", "Other diseases">>>>

DbpKey(label) == "DBP: " \o label
DxKey(label) == "Diagnosis: " \o label
ContinuousKeys == {"Serum_glucose (mmol/L)", "Blood_urea_nitrogen (mmol/L)", "Hemoglobin (g/L)"}
DbpKeys == {DbpKey(d[2]) : d \in Range(DbpDummies)}
DxKeys == {DxKey(d[2]) : d \in Range(DxDummies)}
FlagKeys == {"Laxative use (Yes)", "NRS-2002 >=3 (Yes)"}
ContribKeys == ContinuousKeys \cup DbpKeys \cup FlagKeys \cup DxKeys

(* The (coefficient name, option) pair a DBP or diagnosis entry is built from. *)
DummyOf == [key \in DbpKeys \cup DxKeys |->
    IF key \in DbpKeys THEN CHOOSE d \in Range(DbpDummies) : DbpKey(d[2]) = key
    ELSE CHOOSE d \in Range(DxDummies) : DxKey(d[2]) = key]

(* Slip: the continuous differences taken the other way round. *)
contributions_reversed(dg, dbp, glu, bn, h, lx, nr, base) ==
    [key \in ContribKeys |->
        IF key = "Serum_glucose (mmol/L)" THEN COEF.glucose * (base.glucose - glu)
        ELSE IF key = "Blood_urea_nitrogen (mmol/L)" THEN COEF.bun * (base.bun - bn)
        ELSE IF key = "Hemoglobin (g/L)" THEN COEF.hb * (base.hb - h)
        ELSE IF key \in DbpKeys THEN
            LET d == DummyOf[key]
            IN  COEF[d[1]] * (IF dbp = d[2] THEN 1 ELSE 0)
        ELSE IF key = "Laxative use (Yes)" THEN COEF.lax_yes * (IF YesIn(lx) THEN 1 ELSE 0)
        ELSE IF key = "NRS-2002 >=3 (Yes)" THEN COEF.nrs_yes * (IF YesIn(nr) THEN 1 ELSE 0)
        ELSE
            LET d == DummyOf[key]
            IN  COEF[d[1]] * (IF dg = d[2] THEN 1 ELSE 0)]

(* Variant: the dummy levels of DBP, laxative and NRS relative to the baseline. *)
contributions_baselined(dg, dbp, glu, bn, h, lx, nr, base) ==
    [key \in ContribKeys |->
        IF key = "Serum_glucose (mmol/L)" THEN COEF.glucose * (glu - base.glucose)
        ELSE IF key = "Blood_urea_nitrogen (mmol/L)" THEN COEF.bun * (bn - base.bun)
        ELSE IF key = "Hemoglobin (g/L)" THEN COEF.hb * (h - base.hb)
        ELSE IF key \in DbpKeys THEN
            LET d == DummyOf[key]
            IN  COEF[d[1]] * ((IF dbp = d[2] THEN 1 ELSE 0) - (IF base.dbp = d[2] THEN 1 ELSE 0))
        ELSE IF key = "Laxative use (Yes)" THEN COEF.lax_yes * ((IF YesIn(lx) THEN 1 ELSE 0) - (IF YesIn(base.lax) THEN 1 ELSE 0))
        ELSE IF key = "NRS-2002 >=3 (Yes)" THEN COEF.nrs_yes * ((IF YesIn(nr) THEN 1 ELSE 0) - (IF YesIn(base.nrs) THEN 1 ELSE 0))
        ELSE
            LET d == DummyOf[key]
            IN  COEF[d[1]] * (IF dg = d[2] THEN 1 ELSE 0)]

(* Slip: every diagnosis level carries the weight of the first. *)
contributions_dx_slip(dg, dbp, glu, bn, h, lx, nr, base) ==
    [key \in ContribKeys |->
        IF key = "Serum_glucose (mmol/L)" THEN COEF.glucose * (glu - base.glucose)
        ELSE IF key = "Blood_urea_nitrogen (mmol/L)" THEN COEF.bun * (bn - base.bun)
        ELSE IF key = "Hemoglobin (g/L)" THEN COEF.hb * (h - base.hb)
        ELSE IF key \in DbpKeys THEN
            LET d == DummyOf[key]
            IN  COEF[d[1]] * (IF dbp = d[2] THEN 1 ELSE 0)
        ELSE IF key = "Laxative use (Yes)" THEN COEF.lax_yes * (IF YesIn(lx) THEN 1 ELSE 0)
        ELSE IF key = "NRS-2002 >=3 (Yes)" THEN COEF.nrs_yes * (IF YesIn(nr) THEN 1 ELSE 0)
        ELSE
            LET d == DummyOf[key]
            IN  COEF[DxDummies[1][1]] * (IF dg = d[2] THEN 1 ELSE 0)]

contributions(dg, dbp, glu, bn, h, lx, nr, base) ==
    [key \in ContribKeys |->
        IF key = "Serum_glucose (mmol/L)" THEN COEF.glucose * (glu - base.glucose)
        ELSE IF key = "Blood_urea_nitrogen (mmol/L)" THEN COEF.bun * (bn - base.bun)
        ELSE IF key = "Hemoglobin (g/L)" THEN COEF.hb * (h - base.hb)
        ELSE IF key \in DbpKeys THEN
            LET d == DummyOf[key]
            IN  COEF[d[1]] * (IF dbp = d[2] THEN 1 ELSE 0)
        ELSE IF key = "Laxative use (Yes)" THEN COEF.lax_yes * (IF YesIn(lx) THEN 1 ELSE 0)
        ELSE IF key = "NRS-2002 >=3 (Yes)" THEN COEF.nrs_yes * (IF YesIn(nr) THEN 1 ELSE 0)
        ELSE
            LET d == DummyOf[key]
            IN  COEF[d[1]] * (IF dg = d[2] THEN 1 ELSE 0)]

(* The thresholds 0.35 and 0.65 in 1/PScale. *)
LowBelow == 14000
ModerateBelow == 26000

(* Slip: the comparisons inclusive. *)
TierOf_inclusive(prob) ==
    IF prob <= LowBelow THEN <<"low risk", "routine monitoring">>
    ELSE IF prob <= ModerateBelow THEN <<"moderate risk", "reinforced glucose monitoring">>
    ELSE <<"high risk", "optimise glucose, individualised preparation">>

TierOf(prob) ==
    IF prob < LowBelow THEN <<"low risk", "routine monitoring">>
    ELSE IF prob < ModerateBelow THEN <<"moderate risk", "reinforced glucose monitoring">>
    ELSE <<"high risk", "optimise glucose, individualised preparation">>

(* ---------- The script ---------- *)

None == "none"
NoContrib == [key \in ContribKeys |-> 0]

(* A rerun with the button unpressed: the else branch, nothing computed. *)
Idle ==
    /\ go' = FALSE
    /\ z' = None /\ p' = None /\ tier' = None /\ advice' = None
    /\ contrib' = NoContrib

Init ==
    /\ diagnosis = DiagnosisOptions[1]
    /\ dbp_cat = DbpOptions[1]
    /\ glucose = GluDefault /\ bun = BunDefault /\ hb = HbDefault
    /\ lax = YesNoOptions[1] /\ nrs = YesNoOptions[1]
    /\ base_glu = GluDefault /\ base_bun = BunDefault /\ base_hb = HbDefault
    /\ base_dbp = DbpOptions[1]
    /\ base_lax = YesNoOptions[1] /\ base_nrs = YesNoOptions[1]
    /\ go = FALSE
    /\ z = None /\ p = None /\ tier = None /\ advice = None
    /\ contrib = NoContrib

SelectDiagnosis ==
    /\ \E v \in Range(DiagnosisOptions) : diagnosis' = v
    /\ Idle
    /\ UNCHANGED <<dbp_cat, glucose, bun, hb, lax, nrs, baseline>>

SelectDbp ==
    /\ \E v \in Range(DbpOptions) : dbp_cat' = v
    /\ Idle
    /\ UNCHANGED <<diagnosis, glucose, bun, hb, lax, nrs, baseline>>

EnterGlucose ==
    /\ \E v \in GlucoseValues : glucose' = v
    /\ Idle
    /\ UNCHANGED <<diagnosis, dbp_cat, bun, hb, lax, nrs, baseline>>

EnterBun ==
    /\ \E v \in BunValues : bun' = v
    /\ Idle
    /\ UNCHANGED <<diagnosis, dbp_cat, glucose, hb, lax, nrs, baseline>>

EnterHb ==
    /\ \E v \in HbValues : hb' = v
    /\ Idle
    /\ UNCHANGED <<diagnosis, dbp_cat, glucose, bun, lax, nrs, baseline>>

SelectLax ==
    /\ \E v \in Range(YesNoOptions) : lax' = v
    /\ Idle
    /\ UNCHANGED <<diagnosis, dbp_cat, glucose, bun, hb, nrs, baseline>>

SelectNrs ==
    /\ \E v \in Range(YesNoOptions) : nrs' = v
    /\ Idle
    /\ UNCHANGED <<diagnosis, dbp_cat, glucose, bun, hb, lax, baseline>>

EnterBaseGlu ==
    /\ \E v \in GlucoseValues : base_glu' = v
    /\ Idle
    /\ UNCHANGED <<inputs, base_bun, base_hb, base_dbp, base_lax, base_nrs>>

EnterBaseBun ==
    /\ \E v \in BunValues : base_bun' = v
    /\ Idle
    /\ UNCHANGED <<inputs, base_glu, base_hb, base_dbp, base_lax, base_nrs>>

EnterBaseHb ==
    /\ \E v \in HbValues : base_hb' = v
    /\ Idle
    /\ UNCHANGED <<inputs, base_glu, base_bun, base_dbp, base_lax, base_nrs>>

SelectBaseDbp ==
    /\ \E v \in Range(DbpOptions) : base_dbp' = v
    /\ Idle
    /\ UNCHANGED <<inputs, base_glu, base_bun, base_hb, base_lax, base_nrs>>

SelectBaseLax ==
    /\ \E v \in Range(YesNoOptions) : base_lax' = v
    /\ Idle
    /\ UNCHANGED <<inputs, base_glu, base_bun, base_hb, base_dbp, base_nrs>>

SelectBaseNrs ==
    /\ \E v \in Range(YesNoOptions) : base_nrs' = v
    /\ Idle
    /\ UNCHANGED <<inputs, base_glu, base_bun, base_hb, base_dbp, base_lax>>

Base == [glucose |-> base_glu, bun |-> base_bun, hb |-> base_hb,
         dbp |-> base_dbp, lax |-> base_lax, nrs |-> base_nrs]

(* A click on the button: the if branch. *)
Calculate ==
    /\ go' = TRUE
    /\ z' = logit_from_inputs(diagnosis, dbp_cat, glucose, bun, hb, lax, nrs)
    /\ p' = logistic(z')
    /\ tier' = TierOf(p')[1]
    /\ advice' = TierOf(p')[2]
    /\ contrib' = contributions(diagnosis, dbp_cat, glucose, bun, hb, lax, nrs, Base)
    /\ UNCHANGED <<inputs, baseline>>

Next ==
    \/ SelectDiagnosis \/ SelectDbp \/ EnterGlucose \/ EnterBun \/ EnterHb
    \/ SelectLax \/ SelectNrs
    \/ EnterBaseGlu \/ EnterBaseBun \/ EnterBaseHb
    \/ SelectBaseDbp \/ SelectBaseLax \/ SelectBaseNrs
    \/ Calculate

Spec == Init /\ [][Next]_vars

(* ---------- The helpers on their own ---------- *)

(* The logits and probabilities handed to the helpers, in 1/ZScale below  *)
(* and above zero and in 1/PScale.                                        *)
ZBelow == 50000
ZAbove == 410000
LogitValues == (0 - ZBelow)..ZAbove
ProbabilityValues == 0..PScale

Defaults ==
    /\ diagnosis = DiagnosisOptions[1]
    /\ dbp_cat = DbpOptions[1]
    /\ glucose = GluDefault /\ bun = BunDefault /\ hb = HbDefault
    /\ lax = YesNoOptions[1] /\ nrs = YesNoOptions[1]
    /\ base_glu = GluDefault /\ base_bun = BunDefault /\ base_hb = HbDefault
    /\ base_dbp = DbpOptions[1]
    /\ base_lax = YesNoOptions[1] /\ base_nrs = YesNoOptions[1]
    /\ go = FALSE
    /\ contrib = NoContrib

(* Lines 87-97 for a given logit. *)
InitLogistic ==
    /\ Defaults
    /\ z \in LogitValues
    /\ p = None /\ tier = None /\ advice = None

EvalLogistic ==
    /\ tier = None
    /\ p' = logistic(z)
    /\ tier' = TierOf(p')[1]
    /\ advice' = TierOf(p')[2]
    /\ UNCHANGED <<inputs, baseline, go, z, contrib>>

NextLogistic == EvalLogistic

SpecLogistic == InitLogistic /\ [][NextLogistic]_vars

(* Lines 89-97 for a given probability. *)
InitTier ==
    /\ Defaults
    /\ z = None
    /\ p \in ProbabilityValues
    /\ tier = None /\ advice = None

SelectTier ==
    /\ tier = None
    /\ tier' = TierOf(p)[1]
    /\ advice' = TierOf(p)[2]
    /\ UNCHANGED <<inputs, baseline, go, z, p, contrib>>

NextTier == SelectTier

SpecTier == InitTier /\ [][NextTier]_vars

(* ---------- Properties ---------- *)

RECURSIVE SumOver(_, _)
SumOver(f, keys) ==
    IF keys = {} THEN 0
    ELSE LET k == CHOOSE k \in keys : TRUE
         IN  f[k] + SumOver(f, keys \ {k})

(* The offsets of the COEF table by option; the reference options have none. *)
DbpOffset == [o \in Range(DbpOptions) |->
    CASE o = DbpOptions[2] -> dbp_cat2
      [] o = DbpOptions[3] -> dbp_cat3
      [] o = DbpOptions[4] -> dbp_cat4
      [] OTHER -> 0]
DxOffset == [o \in Range(DiagnosisOptions) |->
    CASE o = DiagnosisOptions[2] -> dx_colon
      [] o = DiagnosisOptions[3] -> dx_gastric
      [] o = DiagnosisOptions[4] -> dx_esophageal
      [] o = DiagnosisOptions[5] -> dx_other
      [] OTHER -> 0]
FlagOffset(flag, w) == IF flag = YesNoOptions[2] THEN w ELSE 0
Ind(b) == IF b THEN 1 ELSE 0

AtReference ==
    /\ diagnosis = DiagnosisOptions[1] /\ dbp_cat = DbpOptions[1]
    /\ lax = YesNoOptions[1] /\ nrs = YesNoOptions[1]

(* C1: after a calculation z is the intercept plus the three weighted      *)
(* continuous values plus the offset of the selected DBP band (0 for the  *)
(* reference band), the laxative and NRS weights when their flags are     *)
(* set, and the offset of the selected diagnosis (0 for the reference);   *)
(* with everything at its reference level z is the intercept plus the     *)
(* three weighted continuous values.                                      *)
C1_LogitFormula ==
    go =>
        /\ z = intercept + w_glucose * glucose + w_bun * bun + w_hb * hb
                 + DbpOffset[dbp_cat] + FlagOffset(lax, lax_yes)
                 + FlagOffset(nrs, nrs_yes) + DxOffset[diagnosis]
        /\ AtReference => z = intercept + w_glucose * glucose + w_bun * bun + w_hb * hb

C1_Witness ==
    /\ go
    /\ diagnosis = "Other diseases" /\ dbp_cat = "> 110 mmHg"
    /\ lax = YesNoOptions[2] /\ nrs = YesNoOptions[2]
    /\ glucose # GluDefault /\ bun # BunDefault /\ hb # HbDefault
    /\ z = intercept + w_glucose * glucose + w_bun * bun + w_hb * hb
             + dbp_cat4 + lax_yes + nrs_yes + dx_other

(* C2: the tier is decided by p alone: below 0.35 low, from 0.35 and      *)
(* below 0.65 moderate, from 0.65 high, each with its own advice; exactly *)
(* 0.35 is moderate and exactly 0.65 is high; exactly one tier is chosen. *)
C2_TierOfProbability ==
    tier # None =>
        /\ (100 * p < 35 * PScale) =>
              tier = "low risk" /\ advice = "routine monitoring"
        /\ (100 * p >= 35 * PScale /\ 100 * p < 65 * PScale) =>
              tier = "moderate risk" /\ advice = "reinforced glucose monitoring"
        /\ (100 * p >= 65 * PScale) =>
              tier = "high risk" /\ advice = "optimise glucose, individualised preparation"
        /\ Cardinality({t \in {"low risk", "moderate risk", "high risk"} : t = tier}) = 1

C2_Witness ==
    /\ tier = "moderate risk"
    /\ 100 * p = 35 * PScale

BaselineLogit ==
    logit_from_inputs(DiagnosisOptions[1], base_dbp, base_glu, base_bun, base_hb,
                      base_lax, base_nrs)

(* C3: the contributions add up to the logit of the current inputs minus  *)
(* the logit of the baseline (glucose, BUN, hemoglobin, DBP band,         *)
(* laxative and NRS of the baseline; the baseline has no diagnosis, the   *)
(* reference diagnosis stands for it).                                    *)
C3_Additive ==
    go => SumOver(contrib, ContribKeys) = z - BaselineLogit

BaselineIsCurrent ==
    /\ base_glu = glucose /\ base_bun = bun /\ base_hb = hb
    /\ base_dbp = dbp_cat /\ base_lax = lax /\ base_nrs = nrs

(* C4: with the baseline equal to the current inputs every contribution   *)
(* is 0 (the baseline has no diagnosis: the current diagnosis is taken at *)
(* its reference level, the baseline of the diagnosis entries).           *)
C4_ZeroAtBaseline ==
    (go /\ BaselineIsCurrent /\ diagnosis = DiagnosisOptions[1]) =>
        \A key \in ContribKeys : contrib[key] = 0

(* C5: every dummy level contributes its weight times (1 if the current   *)
(* value selects it, else 0) minus (1 if the baseline value selects it,   *)
(* else 0); no baseline diagnosis exists, so none selects a diagnosis     *)
(* level.                                                                 *)
C5_DummyLevels ==
    go =>
        /\ \A o \in Range(DbpOptions) \ {DbpOptions[1]} :
              contrib[DbpKey(o)] = DbpOffset[o] * (Ind(dbp_cat = o) - Ind(base_dbp = o))
        /\ contrib["Laxative use (Yes)"] =
              lax_yes * (Ind(lax = YesNoOptions[2]) - Ind(base_lax = YesNoOptions[2]))
        /\ contrib["NRS-2002 >=3 (Yes)"] =
              nrs_yes * (Ind(nrs = YesNoOptions[2]) - Ind(base_nrs = YesNoOptions[2]))
        /\ \A o \in Range(DiagnosisOptions) \ {DiagnosisOptions[1]} :
              contrib[DxKey(o)] = DxOffset[o] * Ind(diagnosis = o)

Sign(n) == IF n > 0 THEN 1 ELSE IF n < 0 THEN -1 ELSE 0

(* C6: each continuous feature contributes its weight times (value minus  *)
(* baseline value); the contribution has the sign of that difference and  *)
(* is 0 exactly when the value equals its baseline.                       *)
C6_Continuous ==
    go =>
        /\ contrib["Serum_glucose (mmol/L)"] = w_glucose * (glucose - base_glu)
        /\ contrib["Blood_urea_nitrogen (mmol/L)"] = w_bun * (bun - base_bun)
        /\ contrib["Hemoglobin (g/L)"] = w_hb * (hb - base_hb)
        /\ Sign(contrib["Serum_glucose (mmol/L)"]) = Sign(glucose - base_glu)
        /\ Sign(contrib["Blood_urea_nitrogen (mmol/L)"]) = Sign(bun - base_bun)
        /\ Sign(contrib["Hemoglobin (g/L)"]) = Sign(hb - base_hb)

C6_Witness ==
    /\ go
    /\ glucose > base_glu /\ bun < base_bun /\ hb = base_hb
    /\ contrib["Serum_glucose (mmol/L)"] > 0
    /\ contrib["Blood_urea_nitrogen (mmol/L)"] < 0
    /\ contrib["Hemoglobin (g/L)"] = 0

Rank(t) == CASE t = "low risk" -> 1 [] t = "moderate risk" -> 2 [] t = "high risk" -> 3

(* C7: the probability does not decrease when z grows by one step, grows  *)
(* when z grows by a whole unit (below saturation), and is one half at    *)
(* z = 0; the tier does not go down when z grows, and z = 0 is moderate.  *)
C7_Monotone ==
    tier # None =>
        /\ (z - 1 >= 0 - ZBelow) =>
              /\ logistic(z - 1) <= p
              /\ Rank(TierOf(logistic(z - 1))[1]) <= Rank(tier)
        /\ (z - ZScale >= 0 - ZBelow /\ p < PScale) => logistic(z - ZScale) < p
        /\ (z = 0) => (2 * p = PScale /\ tier = "moderate risk")

C7_Witness ==
    /\ tier = "moderate risk" /\ z = 0 /\ 2 * p = PScale

(* C8: for the defaults of the form (reference diagnosis and DBP band,    *)
(* glucose 5.6, BUN 6.0, hemoglobin 130, no laxative, no NRS flag)        *)
(* z = 14.4704 and the tier is high.                                      *)
C8_DefaultExample ==
    (go /\ AtReference /\ glucose = 56 /\ bun = 60 /\ hb = 130) =>
        (z = 144704 /\ tier = "high risk")

C8_Witness ==
    /\ go /\ AtReference /\ glucose = 56 /\ bun = 60 /\ hb = 130
    /\ z = 144704 /\ tier = "high risk"

=============================================================================
